---------------------------- MODULE Spec2Model ----------------------------
(***************************************************************************)
(* Model of main.py of demons_souls_calculator: the enumeration of every   *)
(* head/torso/arms/legs combination (make_armourset_list), the scoring of  *)
(* every combination against the global extrema (get_geometric_mean) and   *)
(* the export of the scored combinations (write_to_csv).                   *)
(*                                                                         *)
(* Python floats are modelled by the exact values they stand for: a        *)
(* quotient is a reduced fraction [num, den], and the root taken by        *)
(* get_geometric_mean is kept symbolic, as the radicand with its degree.   *)
(***************************************************************************)
EXTENDS Integers, Sequences, FiniteSets, TLC

VARIABLES head, torso, arms, legs, armours, pc, it, extrema, cur, csvfile,
          gm_args, gm_result

vars == <<head, torso, arms, legs, armours, pc, it, extrema, cur, csvfile,
          gm_args, gm_result>>

(***************************************************************************)
(* Bounds of the model.                                                    *)
(***************************************************************************)
\* longest catalog drawn for one equipment slot
MaxLen == 2
\* largest attribute value handed to get_geometric_mean on its own
MaxVal == 2
\* largest poison_weight / plague_weight handed to get_geometric_mean
MaxWeight == 2

(***************************************************************************)
(* Armour (dataclass) and its __post_init__.                               *)
(***************************************************************************)
\* the fields of Armour whose type is int, total left out
IntFields == <<"physical", "fire", "bleed", "poison", "plague">>

RECURSIVE SumFields(_, _, _)
SumFields(obj, names, n) ==
    IF n = 0 THEN 0 ELSE obj[names[n]] + SumFields(obj, names, n - 1)

\* Armour.__post_init__: total is the sum of the int fields other than total
PostInitTotal(obj) == SumFields(obj, IntFields, Len(IntFields))

Armour(name, physical, fire, bleed, poison, plague) ==
    LET obj == [name |-> name, physical |-> physical, fire |-> fire,
                bleed |-> bleed, poison |-> poison, plague |-> plague]
    IN  [name |-> name, physical |-> physical, fire |-> fire,
         bleed |-> bleed, poison |-> poison, plague |-> plague,
         total |-> PostInitTotal(obj)]

\* a field declared with init=False and no default: no attribute is set
Unset == [defined |-> FALSE]

\* mutant of ArmourSet: weighted_total is given a value by the constructor
ArmourSetScored(name, physical, fire, bleed, poison, plague, parts) ==
    LET base == Armour(name, physical, fire, bleed, poison, plague)
    IN  [name |-> base.name, physical |-> base.physical, fire |-> base.fire,
         bleed |-> base.bleed, poison |-> base.poison,
         plague |-> base.plague, total |-> base.total,
         parts |-> parts,
         weighted_total |-> [defined |-> TRUE,
                             norm_poison |-> [num |-> 0, den |-> 1],
                             norm_plague |-> [num |-> 0, den |-> 1],
                             norm_total |-> [num |-> 0, den |-> 1],
                             radicand |-> [num |-> 0, den |-> 1],
                             degree |-> 2]]

\* ArmourSet(name=..., ..., parts=...): Armour's fields, parts, and
\* weighted_total left unset by the constructor
ArmourSet(name, physical, fire, bleed, poison, plague, parts) ==
    LET base == Armour(name, physical, fire, bleed, poison, plague)
    IN  [name |-> base.name, physical |-> base.physical, fire |-> base.fire,
         bleed |-> base.bleed, poison |-> base.poison,
         plague |-> base.plague, total |-> base.total,
         parts |-> parts, weighted_total |-> Unset]

\* fields(ArmourSet) in declaration order, each with its repr flag
ArmourSetFields ==
    << [name |-> "name",           repr |-> TRUE],
       [name |-> "physical",       repr |-> TRUE],
       [name |-> "fire",           repr |-> TRUE],
       [name |-> "bleed",          repr |-> TRUE],
       [name |-> "poison",         repr |-> TRUE],
       [name |-> "plague",         repr |-> TRUE],
       [name |-> "total",          repr |-> TRUE],
       [name |-> "parts",          repr |-> FALSE],
       [name |-> "weighted_total", repr |-> TRUE] >>

(***************************************************************************)
(* The compiled-in catalogs.                                               *)
(***************************************************************************)
HeadData ==
    << Armour("Gold Mask", 2, 8, 16, 16, 16),
       Armour("Three-Conered Hat", 10, 5, 6, 6, 24),
       Armour("Imperial Spy Hood", 12, 10, 8, 16, 0),
       Armour("Assassin's Mask", 10, 7, 6, 24, 0) >>

TorsoData ==
    << Armour("Old Ragged Robes", 26, 13, 15, 15, 62),
       Armour("Black Leather Garb", 25, 17, 15, 62, 0),
       Armour("Imperial Spy Clothes", 26, 18, 24, 46, 0) >>

ArmsData ==
    << Armour("Old Ragged Gloves", 16, 8, 9, 9, 37),
       Armour("Black Gloves", 15, 10, 9, 37, 0),
       Armour("Imperial Spy Gloves", 15, 14, 14, 32, 0) >>

LegsData ==
    << Armour("Old Ragged Boots", 16, 8, 9, 9, 37),
       Armour("Black Boots", 15, 10, 9, 37, 0),
       Armour("Imperial Spy Leggings", 15, 14, 14, 32, 0) >>

(***************************************************************************)
(* Catalogs the general specification draws from, beside the compiled-in   *)
(* ones: per slot a small pool of items, a catalog being any sequence of   *)
(* at most MaxLen of them (an item may occur twice, and with one item to   *)
(* draw from every longer torso or arms catalog repeats it).  The two head *)
(* items differ only in poison, 0 against 10; the two legs items have the  *)
(* same poison and differ in plague and total.                             *)
(***************************************************************************)
HeadPool ==
    { Armour("h0", 1, 2, 3, 0, 4),
      Armour("h10", 1, 2, 3, 10, 4) }

TorsoPool ==
    { Armour("t1", 2, 1, 0, 5, 0) }

ArmsPool ==
    { Armour("a1", 1, 0, 4, 2, 2) }

LegsPool ==
    { Armour("l1", 0, 2, 1, 1, 3),
      Armour("l2", 4, 0, 2, 1, 5) }

Catalogs(pool) == UNION { [1..n -> pool] : n \in 0..MaxLen }

(***************************************************************************)
(* itertools.product(head, torso, arms, legs): an odometer over the four   *)
(* pools, the rightmost index moving fastest.                              *)
(***************************************************************************)
Pools == <<head, torso, arms, legs>>

\* the iterator before its first next(): exhausted at once when a pool is empty
ProductIter(pools) ==
    [indices |-> [s \in 1..Len(pools) |-> 1],
     stopped |-> \E s \in 1..Len(pools) : Len(pools[s]) = 0]

\* the tuple the iterator yields at its present position
Combo(pools, iter) == [s \in 1..Len(pools) |-> pools[s][iter.indices[s]]]

\* mutant of ProductNext: no carry, the iterator stops when the rightmost
\* index has run through its pool
ProductNextNoCarry(pools, iter) ==
    LET last == Len(pools)
    IN  IF iter.indices[last] < Len(pools[last])
        THEN [iter EXCEPT !.indices[last] = iter.indices[last] + 1]
        ELSE [iter EXCEPT !.stopped = TRUE]

\* mutant of ProductNext: the leftmost index moves fastest
ProductNextLeftFirst(pools, iter) ==
    LET movable == { s \in 1..Len(pools) : iter.indices[s] < Len(pools[s]) }
    IN  IF movable = {}
        THEN [iter EXCEPT !.stopped = TRUE]
        ELSE LET m == CHOOSE s \in movable : \A t \in movable : t >= s
             IN  [iter EXCEPT !.indices =
                     [s \in 1..Len(pools) |->
                         IF s > m THEN iter.indices[s]
                         ELSE IF s = m THEN iter.indices[s] + 1
                         ELSE 1]]

\* the iterator after yielding: the rightmost index that can still move is
\* advanced, every index to its right starts over
ProductNext(pools, iter) ==
    LET movable == { s \in 1..Len(pools) : iter.indices[s] < Len(pools[s]) }
    IN  IF movable = {}
        THEN [iter EXCEPT !.stopped = TRUE]
        ELSE LET m == CHOOSE s \in movable : \A t \in movable : t <= s
             IN  [iter EXCEPT !.indices =
                     [s \in 1..Len(pools) |->
                         IF s < m THEN iter.indices[s]
                         ELSE IF s = m THEN iter.indices[s] + 1
                         ELSE 1]]

(***************************************************************************)
(* Helpers of the loop body of make_armourset_list.                        *)
(***************************************************************************)
RECURSIVE JoinFrom(_, _, _)
JoinFrom(sep, strs, n) ==
    IF n = 0 THEN ""
    ELSE IF n = 1 THEN strs[1]
    ELSE JoinFrom(sep, strs, n - 1) \o sep \o strs[n]

\* sep.join(strs)
Join(sep, strs) == JoinFrom(sep, strs, Len(strs))

RECURSIVE SumAttrFrom(_, _, _)
SumAttrFrom(combo, attr, n) ==
    IF n = 0 THEN 0 ELSE combo[n][attr] + SumAttrFrom(combo, attr, n - 1)

\* mutant of SumAttr: the last part is left out of the sum
SumAttrSkipLast(combo, attr) == SumAttrFrom(combo, attr, Len(combo) - 1)

\* sum(part.<attr> for part in combo)
SumAttr(combo, attr) == SumAttrFrom(combo, attr, Len(combo))

\* the ArmourSet built from one combo
MakeArmourSet(combo) ==
    ArmourSet(Join(" + ", [s \in 1..Len(combo) |-> combo[s].name]),
              SumAttr(combo, "physical"),
              SumAttr(combo, "fire"),
              SumAttr(combo, "bleed"),
              SumAttr(combo, "poison"),
              SumAttr(combo, "plague"),
              combo)

\* min(a.<attr> for a in armours), max(...): armours is not empty
MinAttr(seq, attr) ==
    CHOOSE v \in { seq[i][attr] : i \in 1..Len(seq) } :
        \A i \in 1..Len(seq) : v <= seq[i][attr]

MaxAttr(seq, attr) ==
    CHOOSE v \in { seq[i][attr] : i \in 1..Len(seq) } :
        \A i \in 1..Len(seq) : v >= seq[i][attr]

(***************************************************************************)
(* get_geometric_mean.                                                     *)
(***************************************************************************)
RECURSIVE GCD(_, _)
GCD(a, b) == IF b = 0 THEN a ELSE GCD(b, a % b)

Abs(a) == IF a < 0 THEN -a ELSE a

\* the fraction n/d (d > 0) in lowest terms
Rat(n, d) ==
    LET g == GCD(Abs(n), d)
    IN  [num |-> n \div g, den |-> d \div g]

Zero == Rat(0, 1)

\* mutant of RatMul: the two powers are added
RatAdd(p, q) == Rat(p.num * q.den + q.num * p.den, p.den * q.den)

RatMul(p, q) == Rat(p.num * q.num, p.den * q.den)

RECURSIVE IntPow(_, _)
IntPow(b, e) == IF e = 0 THEN 1 ELSE b * IntPow(b, e - 1)

\* p ** e for a weight e in 0..MaxWeight (0.0 ** 0 is 1.0)
RatPow(p, e) == Rat(IntPow(p.num, e), IntPow(p.den, e))

\* mutant of normalise: the distance is taken from max_val
normaliseInverted(value, min_val, max_val) ==
    IF max_val = min_val
    THEN Zero
    ELSE Rat(max_val - value, max_val - min_val)

\* mutant of normalise: a degenerate range gives 1.0
normaliseDegenerateOne(value, min_val, max_val) ==
    IF max_val = min_val
    THEN Rat(1, 1)
    ELSE Rat(value - min_val, max_val - min_val)

\* mutant of normalise: min_val is not subtracted from value
normaliseUnshifted(value, min_val, max_val) ==
    IF max_val = min_val
    THEN Zero
    ELSE Rat(value, max_val - min_val)

\* the nested function normalise
normalise(value, min_val, max_val) ==
    IF max_val = min_val
    THEN Zero
    ELSE Rat(value - min_val, max_val - min_val)

\* The returned score 0.5 * norm_total + 0.5 * weighted_score, where
\* weighted_score = radicand ** (1 / total_weight); a total_weight of zero
\* raises ZeroDivisionError.
get_geometric_mean(armour, min_poison, max_poison, min_plague, max_plague, min_total, max_total, poison_weight, plague_weight) ==
    LET norm_poison  == normalise(armour.poison, min_poison, max_poison)
        norm_plague  == normalise(armour.plague, min_plague, max_plague)
        norm_total   == normalise(armour.total, min_total, max_total)
        total_weight == poison_weight + plague_weight
    IN  IF total_weight = 0
        THEN [defined |-> FALSE, raised |-> "ZeroDivisionError"]
        ELSE [defined     |-> TRUE,
              norm_poison |-> norm_poison,
              norm_plague |-> norm_plague,
              norm_total  |-> norm_total,
              radicand    |-> RatMul(RatPow(norm_poison, poison_weight),
                                     RatPow(norm_plague, plague_weight)),
              degree      |-> total_weight]

\* the default value of poison_weight and of plague_weight
DefaultWeight == 1

(***************************************************************************)
(* make_armourset_list, one loop iteration at a time.                      *)
(***************************************************************************)
NoExtrema == [defined |-> FALSE]

\* one iteration of "for combo in product(head, torso, arms, legs)"
Combine ==
    /\ pc = "combine"
    /\ ~it.stopped
    /\ armours' = Append(armours, MakeArmourSet(Combo(Pools, it)))
    /\ it' = ProductNext(Pools, it)
    /\ UNCHANGED <<head, torso, arms, legs, pc, extrema, cur, csvfile,
                   gm_args, gm_result>>

\* the product is exhausted: the six global extrema; min() of an empty
\* sequence raises ValueError
ComputeExtrema ==
    /\ pc = "combine"
    /\ it.stopped
    /\ IF Len(armours) = 0
       THEN /\ pc' = "ValueError"
            /\ UNCHANGED extrema
       ELSE /\ extrema' = [defined    |-> TRUE,
                           min_poison |-> MinAttr(armours, "poison"),
                           max_poison |-> MaxAttr(armours, "poison"),
                           min_plague |-> MinAttr(armours, "plague"),
                           max_plague |-> MaxAttr(armours, "plague"),
                           min_total  |-> MinAttr(armours, "total"),
                           max_total  |-> MaxAttr(armours, "total")]
            /\ pc' = "score"
    /\ UNCHANGED <<head, torso, arms, legs, armours, it, cur, csvfile,
                   gm_args, gm_result>>

\* the value assigned to armour.weighted_total
ScoreOf(armour, ex) ==
    get_geometric_mean(armour, ex.min_poison, ex.max_poison,
                       ex.min_plague, ex.max_plague,
                       ex.min_total, ex.max_total,
                       DefaultWeight, DefaultWeight)

\* one iteration of "for armour in armours"
Score ==
    /\ pc = "score"
    /\ cur <= Len(armours)
    /\ armours' = [armours EXCEPT ![cur].weighted_total =
                       ScoreOf(armours[cur], extrema)]
    /\ cur' = cur + 1
    /\ UNCHANGED <<head, torso, arms, legs, pc, it, extrema, csvfile,
                   gm_args, gm_result>>

\* return armours
Return ==
    /\ pc = "score"
    /\ cur > Len(armours)
    /\ pc' = "returned"
    /\ UNCHANGED <<head, torso, arms, legs, armours, it, extrema, cur,
                   csvfile, gm_args, gm_result>>

(***************************************************************************)
(* write_to_csv(options, "out.csv"): the file is the sequence of the rows  *)
(* written, a row the sequence of its cells (a cell is the value written,  *)
(* its text is not modelled).                                              *)
(***************************************************************************)
\* mutant of field_names: the repr filter is dropped
field_names_unfiltered ==
    [i \in 1..Len(ArmourSetFields) |-> ArmourSetFields[i].name]

\* [f.name for f in fields(ArmourSet) if f.repr]
field_names ==
    LET keep == SelectSeq(ArmourSetFields, LAMBDA f : f.repr)
    IN  [i \in 1..Len(keep) |-> keep[i].name]

\* DictWriter.writerow({field: getattr(armour, field) ...}): the cells in
\* the order of fieldnames
RowOf(armour, names) == [i \in 1..Len(names) |-> armour[names[i]]]

\* the rows written by "for armour in armours: ... writer.writerow(row)"
RowsOf(seq, names) == [i \in 1..Len(seq) |-> RowOf(seq[i], names)]

\* the whole call: writeheader(), then one writerow per armour
write_to_csv ==
    /\ pc = "returned"
    /\ csvfile' = <<field_names>> \o RowsOf(armours, field_names)
    /\ pc' = "done"
    /\ UNCHANGED <<head, torso, arms, legs, armours, it, extrema, cur,
                   gm_args, gm_result>>

(***************************************************************************)
(* Specifications.                                                         *)
(***************************************************************************)
NoArgs == [defined |-> FALSE]

InitRun ==
    /\ armours = << >>
    /\ pc = "combine"
    /\ it = ProductIter(Pools)
    /\ extrema = NoExtrema
    /\ cur = 1
    /\ csvfile = << >>
    /\ gm_args = NoArgs
    /\ gm_result = Unset

\* any catalogs within the bounds, or the compiled-in ones
Init ==
    /\ \/ /\ head \in Catalogs(HeadPool)
          /\ torso \in Catalogs(TorsoPool)
          /\ arms \in Catalogs(ArmsPool)
          /\ legs \in Catalogs(LegsPool)
       \/ /\ head = HeadData
          /\ torso = TorsoData
          /\ arms = ArmsData
          /\ legs = LegsData
    /\ InitRun

\* the program as shipped: the compiled-in catalogs
InitMain ==
    /\ head = HeadData
    /\ torso = TorsoData
    /\ arms = ArmsData
    /\ legs = LegsData
    /\ InitRun

Next ==
    \/ Combine
    \/ ComputeExtrema
    \/ Score
    \/ Return
    \/ write_to_csv

Spec == Init /\ [][Next]_vars

SpecMain == InitMain /\ [][Next]_vars

(***************************************************************************)
(* get_geometric_mean on its own: any value within its range for each of   *)
(* poison, plague and total, and any pair of weights within the bounds.    *)
(***************************************************************************)
Ranges ==
    { r \in [lo : 0..MaxVal, value : 0..MaxVal, hi : 0..MaxVal] :
        r.lo <= r.value /\ r.value <= r.hi }

InitGM ==
    /\ head = << >> /\ torso = << >> /\ arms = << >> /\ legs = << >>
    /\ armours = << >>
    /\ it = ProductIter(Pools)
    /\ extrema = NoExtrema
    /\ cur = 1
    /\ csvfile = << >>
    /\ pc = "gm_call"
    /\ \E po \in Ranges, pl \in Ranges, to \in Ranges,
          wpo \in 0..MaxWeight, wpl \in 0..MaxWeight :
          gm_args = [defined |-> TRUE,
                     armour |-> [poison |-> po.value, plague |-> pl.value,
                                 total |-> to.value],
                     min_poison |-> po.lo, max_poison |-> po.hi,
                     min_plague |-> pl.lo, max_plague |-> pl.hi,
                     min_total |-> to.lo, max_total |-> to.hi,
                     poison_weight |-> wpo, plague_weight |-> wpl]
    /\ gm_result = Unset

\* one call of get_geometric_mean with the drawn arguments
CallGeometricMean ==
    /\ pc = "gm_call"
    /\ gm_result' = get_geometric_mean(gm_args.armour,
                         gm_args.min_poison, gm_args.max_poison,
                         gm_args.min_plague, gm_args.max_plague,
                         gm_args.min_total, gm_args.max_total,
                         gm_args.poison_weight, gm_args.plague_weight)
    /\ pc' = IF gm_result'.defined THEN "gm_returned" ELSE gm_result'.raised
    /\ UNCHANGED <<head, torso, arms, legs, armours, it, extrema, cur,
                   csvfile, gm_args>>

NextGM == CallGeometricMean

SpecGM == InitGM /\ [][NextGM]_vars

(***************************************************************************)
(* Arithmetic on the modelled scores.  A score stands for                  *)
(* 0.5 * norm_total + 0.5 * radicand ** (1 / degree); it is compared with  *)
(* a fraction q by comparing the radicand with (2q - norm_total) ** degree. *)
(***************************************************************************)
RatSub(p, q) == Rat(p.num * q.den - q.num * p.den, p.den * q.den)

RatLe(p, q) == p.num * q.den <= q.num * p.den

RatTwice(p) == Rat(2 * p.num, p.den)

One == Rat(1, 1)

\* what the root has to equal for the score to equal q
RootTarget(w, q) == RatSub(RatTwice(q), w.norm_total)

ScoreEquals(w, q) ==
    /\ w.radicand.num >= 0
    /\ RootTarget(w, q).num >= 0
    /\ w.radicand = RatPow(RootTarget(w, q), w.degree)

ScoreAtMost(w, q) ==
    /\ w.radicand.num >= 0
    /\ RootTarget(w, q).num >= 0
    /\ RatLe(w.radicand, RatPow(RootTarget(w, q), w.degree))

ScoreAtLeast(w, q) ==
    /\ w.radicand.num >= 0
    /\ \/ RootTarget(w, q).num <= 0
       \/ RatLe(RatPow(RootTarget(w, q), w.degree), w.radicand)

Scored(n) == armours[n].weighted_total.defined

ProductSize == Len(head) * Len(torso) * Len(arms) * Len(legs)

AnyCatalogEmpty ==
    Len(head) = 0 \/ Len(torso) = 0 \/ Len(arms) = 0 \/ Len(legs) = 0

(***************************************************************************)
(* C1                                                                      *)
(***************************************************************************)
\* the index into the catalog of slot s of the n-th tuple of the
\* lexicographic product (head outermost, legs innermost)
LexIndex(n, s) ==
    LET k == n - 1
    IN  CASE s = 4 -> (k % Len(legs)) + 1
          [] s = 3 -> ((k \div Len(legs)) % Len(arms)) + 1
          [] s = 2 -> ((k \div (Len(legs) * Len(arms))) % Len(torso)) + 1
          [] s = 1 -> (k \div (Len(legs) * Len(arms) * Len(torso))) + 1

LexTuple(n) ==
    << head[LexIndex(n, 1)], torso[LexIndex(n, 2)],
       arms[LexIndex(n, 3)], legs[LexIndex(n, 4)] >>

\* C1: the candidates built so far are the first tuples of the lexicographic
\* product of the four catalogs, each named by its four part names joined
\* with " + ", and once the loop is over there are exactly
\* |head| x |torso| x |arms| x |legs| of them.
C1_CartesianProductInOrder ==
    /\ Len(armours) <= ProductSize
    /\ \A n \in 1..Len(armours) :
          /\ armours[n].parts = LexTuple(n)
          /\ armours[n].name =
                 LexTuple(n)[1].name \o " + " \o LexTuple(n)[2].name \o " + "
                 \o LexTuple(n)[3].name \o " + " \o LexTuple(n)[4].name
    /\ pc # "combine" => Len(armours) = ProductSize

C1_Witness ==
    /\ pc = "returned"
    /\ Len(head) = 2 /\ Len(torso) = 2 /\ Len(arms) = 2 /\ Len(legs) = 2
    /\ head[1] # head[2] /\ legs[1] # legs[2]
    /\ torso[1] = torso[2]
    /\ Len(armours) = 16

(***************************************************************************)
(* C2                                                                      *)
(***************************************************************************)
PartsSum(a, attr) ==
    a.parts[1][attr] + a.parts[2][attr] + a.parts[3][attr] + a.parts[4][attr]

\* C2: every candidate's physical, fire, bleed, poison and plague is the sum
\* of that attribute over its four parts, and its total is the sum of its
\* own five attributes and of its parts' totals; before and after scoring.
C2_AttributeSums ==
    \A n \in 1..Len(armours) :
        LET a == armours[n]
        IN  /\ Len(a.parts) = 4
            /\ a.physical = PartsSum(a, "physical")
            /\ a.fire = PartsSum(a, "fire")
            /\ a.bleed = PartsSum(a, "bleed")
            /\ a.poison = PartsSum(a, "poison")
            /\ a.plague = PartsSum(a, "plague")
            /\ a.total = a.physical + a.fire + a.bleed + a.poison + a.plague
            /\ a.total = PartsSum(a, "total")

C2_Witness ==
    /\ pc = "done"
    /\ Len(armours) >= 4
    /\ \A n \in 1..Len(armours) : Scored(n) /\ armours[n].total > 0
    /\ \E n, m \in 1..Len(armours) : armours[n].total # armours[m].total

(***************************************************************************)
(* C3                                                                      *)
(***************************************************************************)
\* C3: with an empty catalog make_armourset_list raises nothing (and
\* returns the empty candidate sequence).
C3_EmptyCatalogIsNoError ==
    AnyCatalogEmpty => pc # "ValueError"

(***************************************************************************)
(* C4                                                                      *)
(***************************************************************************)
C4_Order ==
    /\ pc = "combine" =>
          ~extrema.defined /\ \A n \in 1..Len(armours) : ~Scored(n)
    /\ (\E n \in 1..Len(armours) : Scored(n)) =>
          it.stopped /\ Len(armours) = ProductSize /\ extrema.defined
    /\ extrema.defined =>
          \A n \in 1..Len(armours) :
              /\ extrema.min_poison <= armours[n].poison
              /\ armours[n].poison <= extrema.max_poison
              /\ extrema.min_plague <= armours[n].plague
              /\ armours[n].plague <= extrema.max_plague
              /\ extrema.min_total <= armours[n].total
              /\ armours[n].total <= extrema.max_total
    /\ \A n \in 1..Len(armours) :
          Scored(n) => armours[n].weighted_total = ScoreOf(armours[n], extrema)
    /\ pc \in {"returned", "done"} => \A n \in 1..Len(armours) : Scored(n)

C4_Step ==
    /\ extrema.defined => extrema' = extrema
    /\ (\E n \in 1..Len(armours) :
            armours'[n].weighted_total # armours[n].weighted_total) =>
          /\ it.stopped /\ Len(armours) = ProductSize
          /\ extrema.defined
          /\ Len(armours') = Len(armours)

\* C4: no weighted_total is assigned before the last candidate is built and
\* the six extrema are computed; the extrema, once computed, never change and
\* every score is taken against them; weighted_total is unset on every
\* candidate until then and set on every candidate at the return.
C4_TwoPhaseBuild == [](C4_Order) /\ [][C4_Step]_vars

C4_Witness ==
    /\ pc = "score"
    /\ Len(armours) >= 4
    /\ Scored(1) /\ Scored(2)
    /\ ~Scored(Len(armours))

(***************************************************************************)
(* C5                                                                      *)
(***************************************************************************)
\* C5: with the default weights every assigned weighted_total lies in [0, 1].
C5_ScoreInUnitInterval ==
    \A n \in 1..Len(armours) :
        Scored(n) =>
            /\ ScoreAtLeast(armours[n].weighted_total, Zero)
            /\ ScoreAtMost(armours[n].weighted_total, One)

C5_Witness ==
    /\ pc = "done"
    /\ \E n \in 1..Len(armours) :
          ScoreEquals(armours[n].weighted_total, One)
    /\ \E n \in 1..Len(armours) :
          ScoreEquals(armours[n].weighted_total, Zero)
    /\ \E n \in 1..Len(armours) :
          /\ ~ScoreEquals(armours[n].weighted_total, One)
          /\ ~ScoreEquals(armours[n].weighted_total, Zero)

(***************************************************************************)
(* C6                                                                      *)
(***************************************************************************)
\* what the claim says normalise(value, lo, hi) returns
NormAsClaimed(norm, value, lo, hi) ==
    IF hi = lo
    THEN norm.num = 0
    ELSE /\ norm.num * (hi - lo) = (value - lo) * norm.den
         /\ 0 <= norm.num /\ norm.num <= norm.den

\* catalogs of sizes 2/1/1/1 whose two head items differ only in poison,
\* 0 and 10
PoisonScenario ==
    /\ Len(head) = 2 /\ Len(torso) = 1 /\ Len(arms) = 1 /\ Len(legs) = 1
    /\ head[1].poison = 0 /\ head[2].poison = 10
    /\ \A f \in {"physical", "fire", "bleed", "plague"} :
          head[1][f] = head[2][f]

\* C6: normalise gives 0.0 on a degenerate range and otherwise
\* (value - min) / (max - min), within [0, 1]; in the 2/1/1/1 scenario the
\* two candidates get norm_poison 0.0 and 1.0.
C6_Normalise ==
    /\ \A n \in 1..Len(armours) :
          Scored(n) =>
              LET a == armours[n]
                  w == a.weighted_total
              IN  /\ NormAsClaimed(w.norm_poison, a.poison,
                                   extrema.min_poison, extrema.max_poison)
                  /\ NormAsClaimed(w.norm_plague, a.plague,
                                   extrema.min_plague, extrema.max_plague)
                  /\ NormAsClaimed(w.norm_total, a.total,
                                   extrema.min_total, extrema.max_total)
    /\ (PoisonScenario /\ pc \in {"returned", "done"}) =>
          /\ Len(armours) = 2
          /\ armours[1].weighted_total.norm_poison = [num |-> 0, den |-> 1]
          /\ armours[2].weighted_total.norm_poison = [num |-> 1, den |-> 1]

C6_Witness ==
    /\ PoisonScenario
    /\ pc = "done"
    /\ extrema.min_plague = extrema.max_plague

(***************************************************************************)
(* C7                                                                      *)
(***************************************************************************)
AtAllMinima(a) ==
    /\ a.poison = extrema.min_poison
    /\ a.plague = extrema.min_plague
    /\ a.total = extrema.min_total

\* C7: with the default weights a candidate at the global minimum of poison,
\* of plague and of total is scored exactly 0.0, degenerate ranges included.
C7_MinimalCandidateScoresZero ==
    \A n \in 1..Len(armours) :
        (Scored(n) /\ AtAllMinima(armours[n])) =>
            ScoreEquals(armours[n].weighted_total, Zero)

C7_Witness ==
    /\ pc = "done"
    /\ Len(armours) >= 2
    /\ \E n \in 1..Len(armours) : AtAllMinima(armours[n])
    /\ extrema.min_poison = extrema.max_poison
    /\ extrema.min_total < extrema.max_total

(***************************************************************************)
(* C8                                                                      *)
(***************************************************************************)
SomeNormIsZero ==
    gm_result.norm_poison.num = 0 \/ gm_result.norm_plague.num = 0

HalfNormTotal == Rat(gm_result.norm_total.num, 2 * gm_result.norm_total.den)

GeoTermVanishes ==
    /\ gm_result.radicand.num = 0
    /\ ScoreEquals(gm_result, HalfNormTotal)

\* C8 as claimed: for non-negative weights not both zero, a norm_poison or
\* norm_plague of 0.0 makes the geometric-mean term 0.0 and the score
\* 0.5 * norm_total.
C8_ZeroPropagationAnyWeights ==
    (pc = "gm_returned" /\ SomeNormIsZero) => GeoTermVanishes

\* C8 as amended: for strictly positive weights, a norm_poison or
\* norm_plague of 0.0 makes the geometric-mean term 0.0 and the score
\* 0.5 * norm_total.
C8_ZeroPropagationPositiveWeights ==
    (/\ pc = "gm_returned"
     /\ gm_args.poison_weight > 0 /\ gm_args.plague_weight > 0
     /\ SomeNormIsZero) => GeoTermVanishes

C8_Witness ==
    /\ pc = "gm_returned"
    /\ gm_args.poison_weight = 2 /\ gm_args.plague_weight = 1
    /\ gm_result.norm_poison.num = 0
    /\ gm_result.norm_plague.num > 0
    /\ gm_result.norm_total.num > 0

(***************************************************************************)
(* C9                                                                      *)
(***************************************************************************)
CompiledInSizes ==
    Len(head) = 4 /\ Len(torso) = 3 /\ Len(arms) = 3 /\ Len(legs) = 3

\* C9 as claimed: the compiled-in catalogs, of sizes 4, 3, 3 and 3, give
\* exactly 36 candidates.
C9_ThirtySixCandidates ==
    /\ CompiledInSizes
    /\ pc # "combine" => Len(armours) = 36

\* C9 as amended: the compiled-in catalogs, of sizes 4, 3, 3 and 3, give
\* exactly 108 candidates.
C9_HundredEightCandidates ==
    /\ CompiledInSizes
    /\ pc # "combine" => Len(armours) = 108

C9_Witness ==
    /\ pc = "done"
    /\ Len(armours) = 108
    /\ Len(csvfile) = 109

(***************************************************************************)
(* C10                                                                     *)
(***************************************************************************)
\* C10: the file starts with the header name, physical, fire, bleed, poison,
\* plague, total, weighted_total (no parts), followed by one row per
\* candidate, in the order of the candidate sequence.
C10_CsvLayout ==
    pc = "done" =>
        /\ Len(csvfile) = Len(armours) + 1
        /\ csvfile[1] = << "name", "physical", "fire", "bleed", "poison",
                           "plague", "total", "weighted_total" >>
        /\ \A n \in 1..Len(armours) :
              LET a == armours[n]
              IN  csvfile[n + 1] = << a.name, a.physical, a.fire, a.bleed,
                                      a.poison, a.plague, a.total,
                                      a.weighted_total >>

C10_Witness ==
    /\ pc = "done"
    /\ Len(csvfile) >= 5
    /\ csvfile[2] # csvfile[3]

=============================================================================
